---------------------------- MODULE Spec2Model ----------------------------
(***************************************************************************)
(* A model of the receiptless client components:                          *)
(*   - the URL/token codec (buildReceiptUrl, extractTokenId),              *)
(*   - ReceiptlessQrView and ReceiptlessQrModal (web / native QR views),   *)
(*   - ReceiptScreen (remote receipt preview) and ScanScreen (camera).     *)
(*                                                                         *)
(* JavaScript strings are sequences of UTF-16 code units.  A code unit is  *)
(* written as a one-character string; the code units that have no ASCII    *)
(* spelling are written "U+00E9" (e with acute), "U+00A0" (no-break space) *)
(* and "U+D800" (a high surrogate with no low surrogate after it).         *)
(***************************************************************************)
EXTENDS Integers, Sequences, FiniteSets, TLC

\* JavaScript's null / undefined, as a string value (never a character sequence).
Null == <<"null">>

Min(S) == CHOOSE x \in S : \A y \in S : x <= y
Max(S) == CHOOSE x \in S : \A y \in S : x >= y

(***************************************************************************)
(* Character classes                                                       *)
(***************************************************************************)
Digits == {"0", "1", "2", "3", "4", "5", "6", "7", "8", "9"}
LowerAlpha == {"a", "b", "c", "d", "e", "f", "g", "h", "i", "j", "k", "l", "m",
               "n", "o", "p", "q", "r", "s", "t", "u", "v", "w", "x", "y", "z"}
UpperAlpha == {"A", "B", "C", "D", "E", "F", "G", "H", "I", "J", "K", "L", "M",
               "N", "O", "P", "Q", "R", "S", "T", "U", "V", "W", "X", "Y", "Z"}
\* [0-9a-f] under the regular expression's i flag
HexDigits == Digits \cup {"a", "b", "c", "d", "e", "f", "A", "B", "C", "D", "E", "F"}
\* what String.prototype.trim removes (WhiteSpace and LineTerminator)
WhiteSpace == {" ", "\t", "\n", "\r", "U+00A0"}
\* code units encodeURIComponent throws URIError on when they stand alone
LoneSurrogates == {"U+D800"}

\* lower-casing of ASCII letters (the i flag, URL scheme normalisation)
ToLowerChar(c) ==
    CASE c = "A" -> "a" [] c = "B" -> "b" [] c = "C" -> "c" [] c = "D" -> "d"
      [] c = "E" -> "e" [] c = "F" -> "f" [] c = "G" -> "g" [] c = "H" -> "h"
      [] c = "I" -> "i" [] c = "J" -> "j" [] c = "K" -> "k" [] c = "L" -> "l"
      [] c = "M" -> "m" [] c = "N" -> "n" [] c = "O" -> "o" [] c = "P" -> "p"
      [] c = "Q" -> "q" [] c = "R" -> "r" [] c = "S" -> "s" [] c = "T" -> "t"
      [] c = "U" -> "u" [] c = "V" -> "v" [] c = "W" -> "w" [] c = "X" -> "x"
      [] c = "Y" -> "y" [] c = "Z" -> "z" [] OTHER -> c

ToLower(s) == [i \in 1..Len(s) |-> ToLowerChar(s[i])]

\* s.startsWith(p)
StartsWith(s, p) == Len(s) >= Len(p) /\ SubSeq(s, 1, Len(p)) = p

\* s with its first n code units dropped
Drop(s, n) == SubSeq(s, n + 1, Len(s))

\* String.prototype.trim
Trim(s) ==
    LET keep == {i \in 1..Len(s) : s[i] \notin WhiteSpace}
    IN  IF keep = {} THEN <<>> ELSE SubSeq(s, Min(keep), Max(keep))

\* String(x || ""): null, undefined and "" all become ""
StringOrEmpty(x) == IF x = Null THEN <<>> ELSE x

(***************************************************************************)
(* encodeURIComponent                                                      *)
(***************************************************************************)
\* the characters encodeURIComponent leaves alone
UriUnreserved ==
    Digits \cup LowerAlpha \cup UpperAlpha \cup {"-", "_", ".", "!", "~", "*", "'", "(", ")"}

\* %XX of the UTF-8 bytes of the other characters of the model's alphabet
PercentEncoded(c) ==
    CASE c = " " -> <<"%", "2", "0">>
      [] c = "\t" -> <<"%", "0", "9">>
      [] c = "\n" -> <<"%", "0", "A">>
      [] c = "\r" -> <<"%", "0", "D">>
      [] c = "#" -> <<"%", "2", "3">>
      [] c = "%" -> <<"%", "2", "5">>
      [] c = "/" -> <<"%", "2", "F">>
      [] c = ":" -> <<"%", "3", "A">>
      [] c = "?" -> <<"%", "3", "F">>
      [] c = "\\" -> <<"%", "5", "C">>
      [] c = "U+00A0" -> <<"%", "C", "2", "%", "A", "0">>
      [] c = "U+00E9" -> <<"%", "C", "3", "%", "A", "9">>

RECURSIVE EncodeUnits(_)
EncodeUnits(s) ==
    IF s = <<>> THEN <<>>
    ELSE (IF s[1] \in UriUnreserved THEN <<s[1]>> ELSE PercentEncoded(s[1]))
         \o EncodeUnits(Tail(s))

\* a string the model never looks into (a message, a payload name)
Text(t) == <<t>>

\* a call's outcome: the returned value, or the thrown error
Return(v) == [threw |-> FALSE, value |-> v]
Throw(e) == [threw |-> TRUE, value |-> <<e>>]

encodeURIComponent(s) ==
    IF \E i \in 1..Len(s) : s[i] \in LoneSurrogates
    THEN Throw("URIError")
    ELSE Return(EncodeUnits(s))


(***************************************************************************)
(* buildReceiptUrl: one copy in ReceiptlessQrModal, one in ReceiptlessQrView *)
(***************************************************************************)
Str_https == <<"h", "t", "t", "p", "s", ":", "/", "/">>
Str_http == <<"h", "t", "t", "p", ":", "/", "/">>
Str_r == <<"/", "r", "/">>

\* domain.replace(/^https?:\/\//i, "")
StripScheme(domain) ==
    IF StartsWith(ToLower(domain), Str_https) THEN Drop(domain, Len(Str_https))
    ELSE IF StartsWith(ToLower(domain), Str_http) THEN Drop(domain, Len(Str_http))
    ELSE domain

\* s.replace(/\/+$/, "")
StripTrailingSlashes(s) ==
    LET keep == {i \in 1..Len(s) : s[i] # "/"}
    IN  IF keep = {} THEN <<>> ELSE SubSeq(s, 1, Max(keep))

buildReceiptUrlModal(domain, token) ==
    LET cleanDomain == StripTrailingSlashes(StripScheme(domain))
        cleanToken == Trim(StringOrEmpty(token))
        encoded == encodeURIComponent(cleanToken)
    IN  IF encoded.threw THEN encoded
        ELSE Return(Str_https \o cleanDomain \o Str_r \o encoded.value)

\* a buildReceiptUrl that lower-cases the link it returns
buildReceiptUrlView_LowerCased(domain, token) ==
    LET cleanDomain == StripTrailingSlashes(StripScheme(domain))
        cleanToken == Trim(StringOrEmpty(token))
        encoded == encodeURIComponent(cleanToken)
    IN  IF encoded.threw THEN encoded
        ELSE Return(ToLower(Str_https \o cleanDomain \o Str_r \o encoded.value))

buildReceiptUrlView(domain, token) ==
    LET cleanDomain == StripTrailingSlashes(StripScheme(domain))
        cleanToken == Trim(StringOrEmpty(token))
        encoded == encodeURIComponent(cleanToken)
    IN  IF encoded.threw THEN encoded
        ELSE Return(Str_https \o cleanDomain \o Str_r \o encoded.value)

(***************************************************************************)
(* extractTokenId                                                          *)
(***************************************************************************)
\* /^[0-9a-f]{8}-[0-9a-f]{4}-[1-5][0-9a-f]{3}-[89ab][0-9a-f]{3}-[0-9a-f]{12}$/i
UUID_RE(s) ==
    /\ Len(s) = 36
    /\ \A i \in 1..36 :
         CASE i \in {9, 14, 19, 24} -> s[i] = "-"
           [] i = 15 -> s[i] \in {"1", "2", "3", "4", "5"}
           [] i = 20 -> s[i] \in {"8", "9", "a", "b", "A", "B"}
           [] OTHER -> s[i] \in HexDigits

\* the index of the first code unit of s that is in S, Len(s) + 1 when there is none
IndexOfAny(s, S) ==
    LET hits == {i \in 1..Len(s) : s[i] \in S}
    IN  IF hits = {} THEN Len(s) + 1 ELSE Min(hits)

\* s.split(separator), for a separator that is any one character of seps
RECURSIVE Split(_, _)
Split(s, seps) ==
    LET k == IndexOfAny(s, seps)
    IN  IF k > Len(s) THEN <<s>>
        ELSE <<SubSeq(s, 1, k - 1)>> \o Split(Drop(s, k), seps)

\* "/" before every segment
RECURSIVE JoinPath(_)
JoinPath(segs) ==
    IF segs = <<>> THEN <<>> ELSE <<"/">> \o Head(segs) \o JoinPath(Tail(segs))

\* The URL parser (WHATWG URL, as new URL(s) with no base runs it), restricted
\* to what decides pathname: no port, credential or IPv6 checks, and of the
\* path percent-encode set only the space.
UrlStripped == {" ", "\t", "\n", "\r"}
UrlTabOrNewline == {"\t", "\n", "\r"}
SpecialSchemes == {<<"h", "t", "t", "p">>, <<"h", "t", "t", "p", "s">>,
                   <<"f", "t", "p">>, <<"w", "s">>, <<"w", "s", "s">>}
ForbiddenHostChars == {" ", "%", "<", ">", "^", "|", "[", "]", "U+00A0", "U+00E9", "U+D800"}

UrlPathEncode(seg) ==
    LET enc(c) == IF c = " " THEN <<"%", "2", "0">> ELSE <<c>>
        F[i \in 0..Len(seg)] == IF i = 0 THEN <<>> ELSE F[i - 1] \o enc(seg[i])
    IN  F[Len(seg)]

\* the path state's handling of "." and ".." segments
RECURSIVE ShortenPath(_, _)
ShortenPath(segs, acc) ==
    IF segs = <<>> THEN acc
    ELSE LET seg == Head(segs)
             last == Len(segs) = 1
             popped == IF acc = <<>> THEN acc ELSE SubSeq(acc, 1, Len(acc) - 1)
         IN  IF seg = <<".", ".">>
             THEN ShortenPath(Tail(segs), IF last THEN Append(popped, <<>>) ELSE popped)
             ELSE IF seg = <<".">>
             THEN ShortenPath(Tail(segs), IF last THEN Append(acc, <<>>) ELSE acc)
             ELSE ShortenPath(Tail(segs), Append(acc, UrlPathEncode(seg)))

\* pathname of the path that starts at raw (up to the query or fragment)
HierPathname(raw, seps, special) ==
    LET path == SubSeq(raw, 1, IndexOfAny(raw, {"?", "#"}) - 1)
    IN  IF path = <<>> THEN (IF special THEN <<"/">> ELSE <<>>)
        ELSE JoinPath(ShortenPath(Split(Drop(path, 1), seps), <<>>))

UrlFailure == [ok |-> FALSE, pathname |-> <<>>]
UrlRecord(pathname) == [ok |-> TRUE, pathname |-> pathname]

ParseURL(input) ==
    LET keep == {i \in 1..Len(input) : input[i] \notin UrlStripped}
        stripped == IF keep = {} THEN <<>> ELSE SubSeq(input, Min(keep), Max(keep))
        s == SelectSeq(stripped, LAMBDA c : c \notin UrlTabOrNewline)
        colon == IndexOfAny(s, {":"})
        schemeRaw == SubSeq(s, 1, colon - 1)
        validScheme ==
            /\ colon <= Len(s)
            /\ colon > 1
            /\ s[1] \in LowerAlpha \cup UpperAlpha
            /\ \A i \in 2..(colon - 1) :
                 s[i] \in LowerAlpha \cup UpperAlpha \cup Digits \cup {"+", "-", "."}
        rest == Drop(s, colon)
    IN  IF ~validScheme THEN UrlFailure
        ELSE IF ToLower(schemeRaw) \in SpecialSchemes
        THEN \* special authority slashes, then a non-empty host
             LET slashes == {i \in 1..Len(rest) : rest[i] \notin {"/", "\\"}}
                 auth == IF slashes = {} THEN <<>> ELSE Drop(rest, Min(slashes) - 1)
                 hostEnd == IndexOfAny(auth, {"/", "\\", "?", "#"})
                 host == SubSeq(auth, 1, hostEnd - 1)
             IN  IF host = <<>> \/ \E i \in 1..Len(host) : host[i] \in ForbiddenHostChars
                 THEN UrlFailure
                 ELSE UrlRecord(HierPathname(Drop(auth, hostEnd - 1), {"/", "\\"}, TRUE))
        ELSE IF StartsWith(rest, <<"/", "/">>)
        THEN \* authority (possibly empty), then the path
             LET auth == Drop(rest, 2)
                 hostEnd == IndexOfAny(auth, {"/", "?", "#"})
             IN  UrlRecord(HierPathname(Drop(auth, hostEnd - 1), {"/"}, FALSE))
        ELSE IF StartsWith(rest, <<"/">>)
        THEN UrlRecord(HierPathname(rest, {"/"}, FALSE))
        ELSE \* an opaque path
             UrlRecord(SubSeq(rest, 1, IndexOfAny(rest, {"?", "#"}) - 1))

\* parts.filter(Boolean): the non-empty strings
NonEmptyParts(parts) == SelectSeq(parts, LAMBDA p : p # <<>>)

\* an extractTokenId without .filter(Boolean)
extractTokenId_NoFilter(scanned) ==
    LET s == Trim(StringOrEmpty(scanned))
        u == ParseURL(s)
        parts == Split(u.pathname, {"/"})
        last == IF parts = <<>> THEN <<>> ELSE parts[Len(parts)]
    IN  IF UUID_RE(s) THEN s
        ELSE IF u.ok /\ UUID_RE(last) THEN last
        ELSE Null

\* an extractTokenId that takes the last segment of a URL untested
extractTokenId_AnyLastSegment(scanned) ==
    LET s == Trim(StringOrEmpty(scanned))
        u == ParseURL(s)
        parts == NonEmptyParts(Split(u.pathname, {"/"}))
        last == IF parts = <<>> THEN <<>> ELSE parts[Len(parts)]
    IN  IF UUID_RE(s) THEN s
        ELSE IF u.ok /\ last # <<>> THEN last
        ELSE Null

extractTokenId(scanned) ==
    LET s == Trim(StringOrEmpty(scanned))
        u == ParseURL(s)
        parts == NonEmptyParts(Split(u.pathname, {"/"}))
        last == IF parts = <<>> THEN <<>> ELSE parts[Len(parts)]
    IN  IF UUID_RE(s) THEN s
        ELSE IF u.ok /\ UUID_RE(last) THEN last
        ELSE Null

(***************************************************************************)
(* State                                                                   *)
(*                                                                         *)
(* The components live in different applications (the modal is a web       *)
(* component, the view and the two screens are native); a behaviour        *)
(* follows one mounted instance, named by component.                       *)
(*                                                                         *)
(* React runs a component function (a render) and later, in a step of its  *)
(* own, the render's useEffect callbacks; timers and promise callbacks may  *)
(* run in between.  React flushes a render's effects before it starts the  *)
(* next render, so a render is taken only when no effect is pending, and a *)
(* state update made while an effect is pending is rendered after it.      *)
(***************************************************************************)
VARIABLES
    component,       \* "view" | "modal" | "receipt" | "scan"
    \* ReceiptlessQrView
    vProps,          \* [token, domain]
    \* ReceiptlessQrModal
    mProps,          \* [open, token, domain, logoUrl, onClose]
    mState,          \* QrState
    mMounted,        \* the component is in the tree
    mEffectPending,  \* the last render's effect has not run yet
    mActs,           \* one record per effect run with open = true: its alive flag,
                     \* its async function, its timer and the receiptUrl it closed over
    \* ReceiptScreen
    rParam,          \* the route parameter tokenId
    rData, rLoading, rErr,
    rMounted,
    rEffectPending,
    rRuns,           \* one record per call of run()
    \* ScanScreen
    sPermission,     \* null | "denied" | "granted"
    sScanned, sErr,  \* the useState values
    sShown,          \* the scanned value the rendered handlers closed over
    sRoutes,         \* the arguments of router.replace, in call order
    sLast,           \* the last barcode event and what the handler made of it
    sMounted,
    sEvents          \* barcode events delivered so far

vVars == <<vProps>>
mVars == <<mProps, mState, mMounted, mEffectPending, mActs>>
rVars == <<rParam, rData, rLoading, rErr, rMounted, rEffectPending, rRuns>>
sVars == <<sPermission, sScanned, sErr, sShown, sRoutes, sLast, sMounted, sEvents>>
vars == <<component, vProps, mProps, mState, mMounted, mEffectPending, mActs,
          rParam, rData, rLoading, rErr, rMounted, rEffectPending, rRuns,
          sPermission, sScanned, sErr, sShown, sRoutes, sLast, sMounted, sEvents>>

\* what the actions of one component leave alone
viewFrame == <<component, mVars, rVars, sVars>>
modalFrame == <<component, vVars, rVars, sVars>>
receiptFrame == <<component, vVars, mVars, sVars>>
scanFrame == <<component, vVars, mVars, rVars>>

\* effect runs that start an operation, per component instance
MaxActivations == 2
\* barcode events delivered to one ScanScreen
MaxEvents == 3

(***************************************************************************)
(* ReceiptlessQrModal                                                      *)
(***************************************************************************)
Str_A == <<"A">>
Str_B == <<"B">>
Str_domain == <<"a", ".", "i", "o">>

ModalProps ==
    [open : BOOLEAN,
     token : {Str_A, Str_B},
     domain : {Str_domain},
     logoUrl : {"/logo.png", "/logo@2x.png"},
     onClose : {"onClose1", "onClose2"}]

\* useMemo(() => buildReceiptUrl(domain, token), [domain, token])
ModalReceiptUrl(props) == buildReceiptUrlModal(props.domain, props.token).value

\* the effect's dependency array
ModalDeps(props) == <<props.open, ModalReceiptUrl(props), props.logoUrl, props.onClose>>

\* what the awaited chain of loadImageAsDataUrl and makeBrandedQrDataUrl can throw
ModalThrown ==
    {[isError |-> TRUE, message |-> Text("Logo fetch failed (404)")],
     [isError |-> TRUE, message |-> Text("Logo decode failed")],
     [isError |-> FALSE, message |-> Text("a thrown value that is no Error")]}

ModalOutcomes == {[ok |-> TRUE]} \cup {[ok |-> FALSE, thrown |-> e] : e \in ModalThrown}

\* canvas.toDataURL("image/png") of the QR code of receiptUrl (the logo drawn on
\* it is not told apart: both logos give the same picture here)
BrandedQr(receiptUrl) == <<"data:image/png", receiptUrl>>

QrIdle == [status |-> "idle"]
QrLoading == [status |-> "loading"]
QrReady(dataUrl, receiptUrl) ==
    [status |-> "ready", dataUrl |-> dataUrl, receiptUrl |-> receiptUrl]
QrError(message, receiptUrl) ==
    [status |-> "error", message |-> message, receiptUrl |-> receiptUrl]

\* a cleanup that forgets alive = false
ModalCleanup_KeepsAlive(acts) ==
    IF acts = <<>> THEN acts
    ELSE [acts EXCEPT ![Len(acts)].timer = IF @ = "pending" THEN "cleared" ELSE @]

\* a cleanup that forgets window.clearTimeout(t)
ModalCleanup_NoClearTimeout(acts) ==
    IF acts = <<>> THEN acts
    ELSE [acts EXCEPT ![Len(acts)].alive = FALSE]

\* the effect's return value, run before the next effect and on unmount:
\* alive = false; window.clearTimeout(t)
ModalCleanup(acts) ==
    IF acts = <<>> THEN acts
    ELSE [acts EXCEPT ![Len(acts)] =
              [@ EXCEPT !.alive = FALSE,
                        !.timer = IF @ = "pending" THEN "cleared" ELSE @]]

\* the activation an effect run with open = true starts: alive = true, the async
\* function is called, the timer is set
ModalActivation(props) ==
    [alive |-> TRUE, op |-> "pending", timer |-> "pending", closeCalls |-> 0,
     receiptUrl |-> ModalReceiptUrl(props)]

\* an effect whose early return for a closed modal skips the previous cleanup
ModalEffectActs_NoCleanupOnClose(acts, props, mounted) ==
    IF mounted /\ props.open
    THEN Append(ModalCleanup(acts), ModalActivation(props))
    ELSE IF mounted THEN acts
    ELSE ModalCleanup(acts)

\* the effect (cleanup of the previous one, then the body), on mActs and on mState
ModalEffectActs(acts, props, mounted) ==
    IF mounted /\ props.open
    THEN Append(ModalCleanup(acts), ModalActivation(props))
    ELSE ModalCleanup(acts)

\* an effect whose early return for a closed modal forgets setState({ status: "idle" })
ModalEffectState_NoIdleOnClose(state, props, mounted) ==
    IF ~mounted THEN state
    ELSE IF ~props.open THEN state
    ELSE QrLoading

ModalEffectState(state, props, mounted) ==
    IF ~mounted THEN state
    ELSE IF ~props.open THEN QrIdle
    ELSE QrLoading

\* the state the async function hands to setState when it settles
ModalResult(act, outcome) ==
    IF outcome.ok
    THEN QrReady(BrandedQr(act.receiptUrl), act.receiptUrl)
    ELSE QrError(IF outcome.thrown.isError THEN outcome.thrown.message
                 ELSE Text("QR generation failed"),
                 act.receiptUrl)

\* the last step without its alive check
ModalSettledState_NoAliveCheck(state, act, outcome, mounted) ==
    IF mounted THEN ModalResult(act, outcome) ELSE state

\* the async function's last step: if (!alive) return; setState(...)
\* (React drops the update of a component that is not mounted any more)
ModalSettledState(state, act, outcome, mounted) ==
    IF act.alive /\ mounted THEN ModalResult(act, outcome) ELSE state

\* activation i once its async function has settled: done when it called setState,
\* discarded when it returned at the alive check
ModalSettledActs(acts, i) ==
    [acts EXCEPT ![i].op = IF acts[i].alive THEN "done" ELSE "discarded"]

\* an activation once its timer has run onClose
ModalTimerFired(act) == [act EXCEPT !.timer = "fired", !.closeCalls = @ + 1]

\* the parent renders the modal with other props
ModalRender(props) ==
    /\ component = "modal"
    /\ mMounted /\ ~mEffectPending
    /\ props # mProps
    /\ (props.open /\ ModalDeps(props) # ModalDeps(mProps)) => Len(mActs) < MaxActivations
    /\ mProps' = props
    /\ mEffectPending' = (ModalDeps(props) # ModalDeps(mProps))
    /\ UNCHANGED <<mState, mMounted, mActs>>
    /\ UNCHANGED modalFrame

\* React runs the pending effect
ModalRunEffect ==
    /\ component = "modal"
    /\ mEffectPending
    /\ mActs' = ModalEffectActs(mActs, mProps, mMounted)
    /\ mState' = ModalEffectState(mState, mProps, mMounted)
    /\ mEffectPending' = FALSE
    /\ UNCHANGED <<mProps, mMounted>>
    /\ UNCHANGED modalFrame

\* the async function of activation i settles: it returns, or throws into the catch
ModalOpSettled(i, outcome) ==
    /\ component = "modal"
    /\ i \in 1..Len(mActs)
    /\ mActs[i].op = "pending"
    /\ LET settled == ModalSettledActs(mActs, i)
           state == ModalSettledState(mState, mActs[i], outcome, mMounted)
           \* React runs the pending effect before it renders a state update
           flush == mEffectPending /\ state # mState
       IN  /\ mActs' = IF flush THEN ModalEffectActs(settled, mProps, mMounted) ELSE settled
           /\ mState' = IF flush THEN ModalEffectState(state, mProps, mMounted) ELSE state
           /\ mEffectPending' = IF flush THEN FALSE ELSE mEffectPending
    /\ UNCHANGED <<mProps, mMounted>>
    /\ UNCHANGED modalFrame

\* the timer of activation i elapses: window.setTimeout(onClose, 12000)
ModalTimerFires(i) ==
    /\ component = "modal"
    /\ i \in 1..Len(mActs)
    /\ mActs[i].timer = "pending"
    /\ mActs' = [mActs EXCEPT ![i] = ModalTimerFired(@)]
    /\ UNCHANGED <<mProps, mState, mMounted, mEffectPending>>
    /\ UNCHANGED modalFrame

\* the parent removes the modal from the tree; the cleanup is a pending effect
ModalUnmount ==
    /\ component = "modal"
    /\ mMounted /\ ~mEffectPending
    /\ mMounted' = FALSE
    /\ mEffectPending' = TRUE
    /\ UNCHANGED <<mProps, mState, mActs>>
    /\ UNCHANGED modalFrame

\* what the component function returns
ModalView ==
    IF ~mProps.open THEN [view |-> "null"]
    ELSE IF mState.status = "error"
    THEN [view |-> "error", message |-> mState.message, link |-> ModalReceiptUrl(mProps)]
    ELSE IF mState.status = "ready"
    THEN [view |-> "ready", img |-> mState.dataUrl, url |-> ModalReceiptUrl(mProps)]
    ELSE [view |-> mState.status, url |-> ModalReceiptUrl(mProps)]

(***************************************************************************)
(* ReceiptScreen                                                           *)
(***************************************************************************)
RouteParams == {Null, <<>>, <<" ">>, Str_A, <<" ">> \o Str_A, Str_B}

\* useMemo(() => String(tokenId || "").trim(), [tokenId])
TokenIdOf(param) == Trim(StringOrEmpty(param))

\* the parsed body of the token-preview response for a token
PreviewOf(token_id) == <<"TokenPreviewResponse", token_id>>

\* how fetch(url) and res.json() can end
FetchOutcomes ==
    {[kind |-> "ok"],
     [kind |-> "notOk", error |-> Text("Token not found")],
     [kind |-> "notOk", error |-> Null],
     [kind |-> "rejected", message |-> Text("Network request failed")],
     [kind |-> "rejected", message |-> Text("JSON Parse error")],
     [kind |-> "rejected", message |-> Null]}

\* the message the catch block stores: e?.message || "Error"
FetchErrorMessage(outcome) ==
    LET message == IF outcome.kind = "rejected" THEN outcome.message
                   ELSE IF outcome.error # Null THEN outcome.error
                   ELSE Text("Failed to load receipt")
    IN  IF message = Null THEN Text("Error") ELSE message

\* the effect's return value: cancelled = true
ReceiptCleanup(runs) ==
    IF runs = <<>> THEN runs
    ELSE [runs EXCEPT ![Len(runs)].cancelled = TRUE]

\* the effect (cleanup of the previous one, then the body): if (token_id) run()
ReceiptStarts(param, mounted) == mounted /\ TokenIdOf(param) # <<>>

\* (from: the view run() replaced by the loading view, kept for the record)
ReceiptEffectRuns(runs, param, mounted, view) ==
    IF ReceiptStarts(param, mounted)
    THEN Append(ReceiptCleanup(runs),
                [token_id |-> TokenIdOf(param), cancelled |-> FALSE, status |-> "pending",
                 from |-> view.view])
    ELSE ReceiptCleanup(runs)

\* a run() that does not go back to loading
ReceiptEffectLoading_NoReset(loading, param, mounted) == loading

\* run() up to its first await: setLoading(true); setErr(null)
ReceiptEffectLoading(loading, param, mounted) ==
    IF ReceiptStarts(param, mounted) THEN TRUE ELSE loading

ReceiptEffectErr(err, param, mounted) ==
    IF ReceiptStarts(param, mounted) THEN Null ELSE err

\* what the component function returns
ReceiptViewOf(data, loading, err) ==
    IF loading THEN [view |-> "loading"]
    ELSE IF err # Null \/ data = Null
    THEN [view |-> "error",
          message |-> IF err # Null THEN err ELSE Text("Unknown error")]
    ELSE [view |-> "receipt", data |-> data]

ReceiptView == ReceiptViewOf(rData, rLoading, rErr)

\* run() after its awaits, on each useState value:
\* if (!cancelled) setData(json)
ReceiptSettledData(data, run, outcome, mounted) ==
    IF ~run.cancelled /\ mounted /\ outcome.kind = "ok"
    THEN PreviewOf(run.token_id) ELSE data

\* catch: if (!cancelled) setErr(e?.message || "Error")
ReceiptSettledErr(err, run, outcome, mounted) ==
    IF ~run.cancelled /\ mounted /\ outcome.kind # "ok"
    THEN FetchErrorMessage(outcome) ELSE err

\* finally: if (!cancelled) setLoading(false)
ReceiptSettledLoading(loading, run, mounted) ==
    IF ~run.cancelled /\ mounted THEN FALSE ELSE loading

\* a run that fetches again when it failed
ReceiptSettledRuns_Retry(runs, i, outcome) ==
    LET settled == [runs EXCEPT ![i].status =
                        IF runs[i].cancelled THEN "discarded" ELSE "done"]
    IN  IF outcome.kind # "ok" /\ ~runs[i].cancelled
        THEN Append(settled, [runs[i] EXCEPT !.from = "error"])
        ELSE settled

\* run i once it has settled: done when it set the state, discarded when the
\* cancelled checks dropped its result
ReceiptSettledRuns(runs, i, outcome) ==
    [runs EXCEPT ![i].status = IF runs[i].cancelled THEN "discarded" ELSE "done"]

\* the router shows the screen with another tokenId
ReceiptRender(param) ==
    /\ component = "receipt"
    /\ rMounted /\ ~rEffectPending
    /\ param # rParam
    /\ (TokenIdOf(param) # <<>> /\ TokenIdOf(param) # TokenIdOf(rParam))
           => Len(rRuns) < MaxActivations
    /\ rParam' = param
    /\ rEffectPending' = (TokenIdOf(param) # TokenIdOf(rParam))
    /\ UNCHANGED <<rData, rLoading, rErr, rMounted, rRuns>>
    /\ UNCHANGED receiptFrame

\* React runs the pending effect
ReceiptRunEffect ==
    /\ component = "receipt"
    /\ rEffectPending
    /\ rRuns' = ReceiptEffectRuns(rRuns, rParam, rMounted, ReceiptView)
    /\ rLoading' = ReceiptEffectLoading(rLoading, rParam, rMounted)
    /\ rErr' = ReceiptEffectErr(rErr, rParam, rMounted)
    /\ rEffectPending' = FALSE
    /\ UNCHANGED <<rParam, rData, rMounted>>
    /\ UNCHANGED receiptFrame

\* run i resumes after its awaits: the try's tail, the catch and the finally
ReceiptFetchSettled(i, outcome) ==
    /\ component = "receipt"
    /\ i \in 1..Len(rRuns)
    /\ rRuns[i].status = "pending"
    /\ LET settled == ReceiptSettledRuns(rRuns, i, outcome)
           data == ReceiptSettledData(rData, rRuns[i], outcome, rMounted)
           err == ReceiptSettledErr(rErr, rRuns[i], outcome, rMounted)
           loading == ReceiptSettledLoading(rLoading, rRuns[i], rMounted)
           \* React runs the pending effect before it renders a state update
           flush == rEffectPending /\ <<data, err, loading>> # <<rData, rErr, rLoading>>
       IN  /\ rData' = data
           /\ rRuns' = IF flush
                       THEN ReceiptEffectRuns(settled, rParam, rMounted,
                                              ReceiptViewOf(data, loading, err))
                       ELSE settled
           /\ rLoading' = IF flush THEN ReceiptEffectLoading(loading, rParam, rMounted)
                          ELSE loading
           /\ rErr' = IF flush THEN ReceiptEffectErr(err, rParam, rMounted) ELSE err
           /\ rEffectPending' = IF flush THEN FALSE ELSE rEffectPending
    /\ UNCHANGED <<rParam, rMounted>>
    /\ UNCHANGED receiptFrame

\* the router removes the screen; the cleanup is a pending effect
ReceiptUnmount ==
    /\ component = "receipt"
    /\ rMounted /\ ~rEffectPending
    /\ rMounted' = FALSE
    /\ rEffectPending' = TRUE
    /\ UNCHANGED <<rParam, rData, rLoading, rErr, rRuns>>
    /\ UNCHANGED receiptFrame

(***************************************************************************)
(* ScanScreen                                                              *)
(***************************************************************************)
Uuid4 == <<"3", "f", "a", "8", "5", "f", "6", "4", "-", "5", "7", "1", "7", "-",
           "4", "5", "6", "2", "-", "b", "3", "f", "c", "-",
           "2", "c", "9", "6", "3", "f", "6", "6", "a", "f", "a", "6">>
UuidUpper == <<"3", "F", "A", "8", "5", "F", "6", "4", "-", "5", "7", "1", "7", "-",
               "1", "5", "6", "2", "-", "B", "3", "F", "C", "-",
               "2", "C", "9", "6", "3", "F", "6", "6", "A", "F", "A", "6">>
\* 36 characters of the UUID layout that the pattern rejects: version 7, variant c
Uuid7 == [Uuid4 EXCEPT ![15] = "7"]
UuidVariantC == [Uuid4 EXCEPT ![20] = "c"]
Str_link == Str_https \o Str_domain \o Str_r

\* What the camera can deliver as result.data, each with the token the scanner is
\* documented to find in it (token: Null for a code it does not recognise).
ScanInputs ==
    {[data |-> Uuid4, token |-> Uuid4],
     [data |-> UuidUpper, token |-> UuidUpper],
     [data |-> <<" ", "\t">> \o Uuid4 \o <<"\n">>, token |-> Uuid4],
     [data |-> Str_link \o Uuid4, token |-> Uuid4],
     [data |-> Str_link \o UuidUpper, token |-> UuidUpper],
     [data |-> Str_link \o Uuid4 \o <<"/">>, token |-> Uuid4],
     [data |-> Str_link \o Uuid4 \o <<"?", "s", "=", "1", "#", "t">>, token |-> Uuid4],
     [data |-> <<"H", "T", "T", "P", ":", "/", "/">> \o Str_domain \o <<"/">> \o Uuid4,
      token |-> Uuid4],
     [data |-> <<" ">> \o Str_link \o <<"x", "/", "y", " ", "z", "/">> \o Uuid4 \o <<" ">>,
      token |-> Uuid4],
     [data |-> <<"a", "p", "p", ":", "/", "/", "r", "/">> \o Uuid4, token |-> Uuid4],
     [data |-> Uuid7, token |-> Null],
     [data |-> UuidVariantC, token |-> Null],
     [data |-> SubSeq(Uuid4, 1, 35), token |-> Null],
     [data |-> Uuid4 \o <<"0">>, token |-> Null],
     [data |-> Str_link \o Uuid7, token |-> Null],
     [data |-> Str_link \o Uuid4 \o <<"/", "p", "d", "f">>, token |-> Null],
     [data |-> Str_link \o <<"?", "t", "=">> \o Uuid4, token |-> Null],
     [data |-> Str_domain \o Str_r \o Uuid4, token |-> Null],
     [data |-> Str_https \o <<"a", " ", "b">> \o Str_r \o Uuid4, token |-> Null],
     [data |-> <<"n", "o", "t", "-", "a", "-", "u", "u", "i", "d">>, token |-> Null],
     [data |-> Str_https, token |-> Null],
     [data |-> <<>>, token |-> Null],
     [data |-> Null, token |-> Null]}

ScanUnrecognized == Text("Unrecognized QR. Expected a Receiptless token.")

\* useCameraPermissions() delivers the stored permission
ScanPermissionLoaded(granted) ==
    /\ component = "scan"
    /\ sMounted
    /\ sPermission = "null"
    /\ sPermission' = IF granted THEN "granted" ELSE "denied"
    /\ UNCHANGED <<sScanned, sErr, sShown, sRoutes, sLast, sMounted, sEvents>>
    /\ UNCHANGED scanFrame

\* requestPermission(), called by the effect and by "Grant permission", is granted
ScanPermissionGranted ==
    /\ component = "scan"
    /\ sMounted
    /\ sPermission = "denied"
    /\ sPermission' = "granted"
    /\ UNCHANGED <<sScanned, sErr, sShown, sRoutes, sLast, sMounted, sEvents>>
    /\ UNCHANGED scanFrame

\* onBarcodeScanned(result), the handler of the last render
ScanBarcodeScanned(in) ==
    /\ component = "scan"
    /\ sMounted
    /\ sPermission = "granted"
    /\ sEvents < MaxEvents
    /\ sEvents' = sEvents + 1
    /\ IF sShown
       THEN UNCHANGED <<sScanned, sErr, sRoutes, sLast>>
       ELSE LET raw == Trim(StringOrEmpty(in.data))
                tokenId == extractTokenId(raw)
            IN  /\ sLast' = [handled |-> TRUE, data |-> in.data, tokenId |-> tokenId]
                /\ sScanned' = TRUE
                /\ IF tokenId = Null
                   THEN /\ sErr' = ScanUnrecognized
                        /\ UNCHANGED sRoutes
                   ELSE /\ sErr' = Null
                        /\ sRoutes' = Append(sRoutes, Str_r \o tokenId)
    /\ UNCHANGED <<sPermission, sShown, sMounted>>
    /\ UNCHANGED scanFrame

\* React renders the screen again after setScanned
ScanRender ==
    /\ component = "scan"
    /\ sMounted
    /\ sShown # sScanned
    /\ sShown' = sScanned
    /\ UNCHANGED <<sPermission, sScanned, sErr, sRoutes, sLast, sMounted, sEvents>>
    /\ UNCHANGED scanFrame

\* a "Scan again" that forgets setErr(null)
ScanAgain_KeepsErr ==
    /\ component = "scan"
    /\ sMounted
    /\ sPermission = "granted"
    /\ sShown
    /\ sScanned' = FALSE
    /\ UNCHANGED <<sPermission, sErr, sShown, sRoutes, sLast, sMounted, sEvents>>
    /\ UNCHANGED scanFrame

\* the "Scan again" button, rendered when scanned
ScanAgain ==
    /\ component = "scan"
    /\ sMounted
    /\ sPermission = "granted"
    /\ sShown
    /\ sScanned' = FALSE
    /\ sErr' = Null
    /\ UNCHANGED <<sPermission, sShown, sRoutes, sLast, sMounted, sEvents>>
    /\ UNCHANGED scanFrame

\* the router has replaced the screen by the route it was given
ScanReplaced ==
    /\ component = "scan"
    /\ sMounted
    /\ sRoutes # <<>>
    /\ sMounted' = FALSE
    /\ UNCHANGED <<sPermission, sScanned, sErr, sShown, sRoutes, sLast, sEvents>>
    /\ UNCHANGED scanFrame

(***************************************************************************)
(* ReceiptlessQrView                                                       *)
(***************************************************************************)
ViewDomains ==
    {Str_domain,
     <<"W", "w", "w", ".", "a", "-", "b", ".", "i", "o">>,
     Str_https \o Str_domain \o <<"/">>,
     <<"H", "t", "t", "p", ":", "/", "/">> \o Str_domain \o <<"/", "/", "/">>,
     Str_domain \o <<"/", "x", "/">>,
     <<"f", "t", "p", ":", "/", "/">> \o Str_domain,
     Str_https \o Str_https \o Str_domain,
     Str_https,
     <<"/", "/">>,
     <<>>}

ViewTokens ==
    {<<"a", "b", "c">>,
     <<" ", " ", "a", "b", "c", " ", "1", "2", "3", " ", " ">>,
     <<"a", "/", "b", "?", "c", "#", "%", ":">>,
     <<"U+00E9", "~", "_", "-", ".">>,
     <<"U+00A0", "\t", "A", "\n">>,
     Uuid4,
     UuidUpper,
     <<"a", "U+D800">>,
     <<" ">>,
     <<>>,
     Null}

ViewProps == [token : ViewTokens, domain : ViewDomains]

\* the parent renders the view with other props
ViewRender(props) ==
    /\ component = "view"
    /\ props # vProps
    /\ vProps' = props
    /\ UNCHANGED viewFrame

\* useMemo(() => buildReceiptUrl(domain, token), [domain, token])
ViewReceiptUrl == buildReceiptUrlView(vProps.domain, vProps.token)

\* what the component function returns, or that it throws
ViewView ==
    IF ViewReceiptUrl.threw THEN [view |-> "throws", error |-> ViewReceiptUrl.value]
    ELSE IF vProps.token = Null \/ vProps.token = <<>> \/ Len(Trim(vProps.token)) = 0
    THEN [view |-> "error", message |-> Text("Missing receipt token.")]
    ELSE [view |-> "qr", value |-> ViewReceiptUrl.value]

(***************************************************************************)
(* The specification                                                       *)
(***************************************************************************)
Components == {"view", "modal", "receipt", "scan"}

\* a component that is not the mounted one keeps its values of construction
InitView ==
    vProps \in IF component = "view" THEN ViewProps
               ELSE {[token |-> Null, domain |-> <<>>]}

InitModal ==
    /\ mProps \in IF component = "modal" THEN ModalProps
                  ELSE {[open |-> FALSE, token |-> Str_A, domain |-> Str_domain,
                         logoUrl |-> "/logo.png", onClose |-> "onClose1"]}
    /\ mState = QrIdle
    /\ mMounted = (component = "modal")
    /\ mEffectPending = (component = "modal")
    /\ mActs = <<>>

InitReceipt ==
    /\ rParam \in IF component = "receipt" THEN RouteParams ELSE {Null}
    /\ rData = Null
    /\ rLoading = TRUE
    /\ rErr = Null
    /\ rMounted = (component = "receipt")
    /\ rEffectPending = (component = "receipt")
    /\ rRuns = <<>>

InitScan ==
    /\ sPermission = "null"
    /\ sScanned = FALSE
    /\ sErr = Null
    /\ sShown = FALSE
    /\ sRoutes = <<>>
    /\ sLast = [handled |-> FALSE, data |-> Null, tokenId |-> Null]
    /\ sMounted = (component = "scan")
    /\ sEvents = 0

Init ==
    /\ component \in Components
    /\ InitView
    /\ InitModal
    /\ InitReceipt
    /\ InitScan

Next ==
    \/ \E props \in ViewProps : ViewRender(props)
    \/ \E props \in ModalProps : ModalRender(props)
    \/ ModalRunEffect
    \/ \E i \in 1..MaxActivations, outcome \in ModalOutcomes : ModalOpSettled(i, outcome)
    \/ \E i \in 1..MaxActivations : ModalTimerFires(i)
    \/ ModalUnmount
    \/ \E param \in RouteParams : ReceiptRender(param)
    \/ ReceiptRunEffect
    \/ \E i \in 1..MaxActivations, outcome \in FetchOutcomes : ReceiptFetchSettled(i, outcome)
    \/ ReceiptUnmount
    \/ \E granted \in BOOLEAN : ScanPermissionLoaded(granted)
    \/ ScanPermissionGranted
    \/ \E in \in ScanInputs : ScanBarcodeScanned(in)
    \/ ScanRender
    \/ ScanAgain
    \/ ScanReplaced

Spec == Init /\ [][Next]_vars

\* the event loop runs the callback of a timer that has elapsed
LiveSpec == Spec /\ \A i \in 1..MaxActivations : WF_vars(ModalTimerFires(i))

(***************************************************************************)
(* Properties                                                              *)
(***************************************************************************)
\* the activations of the modal, the runs of the receipt screen
ModalIds == 1..Len(mActs)
ReceiptIds == 1..Len(rRuns)

\* a step in which the async function of activation i / run i settles
ModalSettles(i) == i \in ModalIds /\ mActs[i].op = "pending" /\ mActs'[i].op # "pending"
ReceiptSettles(i) ==
    i \in ReceiptIds /\ rRuns[i].status = "pending" /\ rRuns'[i].status # "pending"

\* a step in which the component's effect runs
ModalEffectRuns == mEffectPending /\ ~mEffectPending'
ReceiptEffectRun == rEffectPending /\ ~rEffectPending'

C3_NoTimerPendingWhileClosed ==
    \A i \in ModalIds :
        /\ mActs[i].alive => mActs[i].timer \in {"pending", "fired"}
        /\ mActs[i].timer = "pending" => mProps.open

\* C3 as amended (ReceiptlessQrModal): every activation starts the timer; whatever
\* the status (loading, ready or error), a live activation's timer eventually
\* calls onClose unless a cleanup ends the activation first; and the cleanup of
\* every teardown or re-trigger clears the timer, so no timer is pending once the
\* effect of the render that closed (or removed) the modal has run.
C3_TimerRegardlessOfOutcome ==
    /\ [](\A i \in ModalIds :
            /\ mActs[i].alive => mActs[i].timer \in {"pending", "fired"}
            /\ (mActs[i].timer = "pending" /\ ~mEffectPending)
                   => (mProps.open /\ mMounted))
    /\ [][Len(mActs') > Len(mActs)
            => mActs'[Len(mActs')].timer = "pending"]_vars
    /\ \A i \in 1..MaxActivations : \A st \in {"loading", "ready", "error"} :
           (i \in ModalIds /\ mActs[i].alive /\ mState.status = st)
               ~> (i \in ModalIds /\ (mActs[i].closeCalls = 1 \/ ~mActs[i].alive))

\* C3 witness: the modal is open and shows the error of its live activation, whose
\* timer has called onClose.
C3_Witness ==
    /\ component = "modal"
    /\ mProps.open /\ ~mEffectPending
    /\ mState.status = "error"
    /\ mActs[Len(mActs)].alive
    /\ mActs[Len(mActs)].op = "done"
    /\ mActs[Len(mActs)].closeCalls = 1

\* a view offers something to act on: it carries more than its kind and its message
HasFallback(view) == DOMAIN view \ {"view", "message"} # {}

\* C4 (ReceiptlessQrModal, ReceiptScreen): the error view a failed operation leads
\* to carries a message and a fallback value (the plain receipt link).
C4_ErrorCarriesMessageAndFallback ==
    /\ (component = "modal" /\ ModalView.view = "error")
           => (ModalView.message # <<>> /\ HasFallback(ModalView))
    /\ (component = "receipt" /\ ReceiptView.view = "error")
           => (ReceiptView.message # <<>> /\ HasFallback(ReceiptView))

\* the view state of each component: idle, loading, ready or error
ModalStatus == mState.status
ReceiptStatusOf(view) == IF view.view = "receipt" THEN "ready" ELSE view.view
ReceiptStatus == ReceiptStatusOf(ReceiptView)

\* C5 as stated (both components): loading is entered only from idle, ready and
\* error only from loading.
C5_LoadingOnlyFromIdle ==
    [][/\ (ModalStatus' = "loading" /\ ModalStatus # "loading") => ModalStatus = "idle"
       /\ (ModalStatus' \in {"ready", "error"} /\ ModalStatus' # ModalStatus)
              => ModalStatus = "loading"
       /\ (ReceiptStatus' = "loading" /\ ReceiptStatus # "loading")
              => ReceiptStatus = "idle"
       /\ (ReceiptStatus' \in {"ready", "error"} /\ ReceiptStatus' # ReceiptStatus)
              => ReceiptStatus = "loading"
      ]_vars

\* C5 as amended (both components): ready and error are entered only from
\* loading; loading is entered only by an effect run that starts an operation,
\* from idle or directly from ready or error; the modal enters idle only when it
\* is closed, and ReceiptScreen is never idle.
C5_ReadyAndErrorOnlyFromLoading ==
    [][/\ (ModalStatus' \in {"ready", "error"} /\ ModalStatus' # ModalStatus)
              => ModalStatus = "loading"
       /\ (ModalStatus' = "loading" /\ ModalStatus # "loading")
              => (ModalEffectRuns /\ mProps.open /\ Len(mActs') = Len(mActs) + 1)
       /\ (ModalStatus' = "idle" /\ ModalStatus # "idle") => ~mProps.open
       /\ (ReceiptStatus' \in {"ready", "error"} /\ ReceiptStatus' # ReceiptStatus)
              => ReceiptStatus = "loading"
       /\ (ReceiptStatus' = "loading" /\ ReceiptStatus # "loading")
              => (ReceiptEffectRun /\ Len(rRuns') = Len(rRuns) + 1)
       /\ ReceiptStatus' # "idle"
      ]_vars

\* C5 witness: ReceiptScreen went from the receipt of one token straight back to
\* loading for the next one.
C5_Witness ==
    /\ component = "receipt"
    /\ Len(rRuns) = 2
    /\ rRuns[2].from = "receipt"
    /\ rRuns[2].status = "pending"
    /\ ReceiptStatus = "loading"

\* the operations in flight whose liveness flag is set
ModalLive == {i \in ModalIds : mActs[i].op = "pending" /\ mActs[i].alive}
ReceiptLive == {i \in ReceiptIds : rRuns[i].status = "pending" /\ ~rRuns[i].cancelled}

\* C6 (both components): at most one operation in flight has its liveness flag
\* set, and it is the one of the last activation.
C6_AtMostOneLiveOperation ==
    /\ Cardinality(ModalLive) <= 1
    /\ ModalLive \subseteq {Len(mActs)}
    /\ Cardinality(ReceiptLive) <= 1
    /\ ReceiptLive \subseteq {Len(rRuns)}

\* C6 witness: two operations of the modal are in flight, the superseded one with
\* its flag cleared.
C6_Witness ==
    /\ component = "modal"
    /\ Len(mActs) = 2
    /\ mActs[1].op = "pending" /\ ~mActs[1].alive
    /\ mActs[2].op = "pending" /\ mActs[2].alive

\* C7 (both components): an operation is started only by an effect run, exactly
\* one by each run that activates (the modal open, the screen with a non-empty
\* token); an effect runs only after a render with changed inputs (or the mount
\* or unmount); and the error state is left only by such an effect run.
C7_SingleAttemptPerActivation ==
    [][/\ Len(mActs') # Len(mActs)
              => (ModalEffectRuns /\ Len(mActs') = Len(mActs) + 1)
       /\ (ModalEffectRuns /\ mMounted /\ mProps.open)
              => (Len(mActs') = Len(mActs) + 1 /\ mActs'[Len(mActs')].op = "pending")
       /\ (ReceiptEffectRun /\ rMounted /\ TokenIdOf(rParam) # <<>>)
              => (Len(rRuns') = Len(rRuns) + 1 /\ rRuns'[Len(rRuns')].status = "pending")
       /\ (ModalStatus = "error" /\ mState' # mState) => ModalEffectRuns
       /\ (mEffectPending' /\ ~mEffectPending)
              => (mProps' # mProps \/ mMounted' # mMounted)
       /\ Len(rRuns') # Len(rRuns)
              => (ReceiptEffectRun /\ Len(rRuns') = Len(rRuns) + 1)
       /\ (ReceiptStatus = "error" /\ ReceiptStatus' # "error") => ReceiptEffectRun
       /\ (rEffectPending' /\ ~rEffectPending)
              => (rParam' # rParam \/ rMounted' # rMounted)
      ]_vars

\* C7 witness: ReceiptScreen shows the error of its only run, which has settled,
\* and nothing is in flight.
C7_Witness ==
    /\ component = "receipt"
    /\ Len(rRuns) = 1
    /\ rRuns[1].status = "done"
    /\ ~rEffectPending
    /\ ReceiptStatus = "error"

\* the scanned code of the last handled scan, with the token it was built around
LastScan == CHOOSE in \in ScanInputs : in.data = sLast.data

\* C8 (extractTokenId): for the code of every handled scan, the function (called
\* on the raw code, and by ScanScreen on the trimmed one) returns the trimmed
\* code when that matches the UUID pattern, else the last non-empty path segment
\* when the code is a URL and that segment matches the pattern, else null: every
\* code built as a bare UUID or as a URL ending in one yields that UUID, and
\* every other code yields null.
C8_ExtractTokenId ==
    sLast.handled =>
        LET s == Trim(StringOrEmpty(sLast.data))
            t == extractTokenId(sLast.data)
        IN  /\ t = LastScan.token
            /\ sLast.tokenId = t
            /\ UUID_RE(s) => t = s
            /\ (~UUID_RE(s) /\ t # Null)
                   => /\ ParseURL(s).ok
                      /\ Len(t) <= Len(s)
                      /\ \E k \in 1..(Len(s) - 35) :
                             /\ SubSeq(s, k, k + 35) = t
                             /\ s[k - 1] = "/"
                             /\ \A j \in (k + 36)..Len(s) :
                                    \/ s[j] = "/"
                                    \/ \E q \in (k + 36)..j : s[q] \in {"?", "#"}

\* C8 witness: a handled scan of a padded URL with several path segments, one of
\* them with a space, and the UUID last.
C8_Witness ==
    /\ component = "scan"
    /\ sLast.handled
    /\ sLast.data = <<" ">> \o Str_link \o <<"x", "/", "y", " ", "z", "/">> \o Uuid4 \o <<" ">>
    /\ sLast.tokenId = Uuid4

\* C9 (extractTokenId, ScanScreen): the token of every handled scan is null or
\* matches the UUID pattern; every route given to router.replace is /r/<token>
\* with such a token; and a step navigates only with the token it extracted, so
\* an unrecognized scan (token null) shows the error and navigates nowhere.
C9_ExtractedTokenIsUuid ==
    /\ [](sLast.tokenId = Null \/ UUID_RE(sLast.tokenId))
    /\ [](\A i \in 1..Len(sRoutes) :
             /\ StartsWith(sRoutes[i], Str_r)
             /\ UUID_RE(Drop(sRoutes[i], Len(Str_r))))
    /\ [][/\ sRoutes' # sRoutes
               => /\ sLast'.tokenId # Null
                  /\ sRoutes' = Append(sRoutes, Str_r \o sLast'.tokenId)
          /\ (sScanned' /\ ~sScanned /\ sLast'.tokenId = Null)
               => (sRoutes' = sRoutes /\ sErr' = ScanUnrecognized)
         ]_vars

\* C9 witness: ScanScreen has navigated once, to the route of an upper-case UUID
\* scanned inside a link.
C9_Witness ==
    /\ component = "scan"
    /\ sLast.data = Str_link \o UuidUpper
    /\ sRoutes = <<Str_r \o UuidUpper>>

\* the characters encodeURIComponent leaves in a percent-encoded string
IsUrlEncoded(s) ==
    \A i \in 1..Len(s) :
        \/ s[i] \in UriUnreserved
        \/ s[i] = "%"
        \/ (i > 1 /\ s[i - 1] = "%")
        \/ (i > 2 /\ s[i - 2] = "%")

\* C10 (buildReceiptUrl, both copies): for every (domain, token) the view is
\* rendered with, each copy returns a string and does not throw, the two copies
\* return the same, and the string is https://, the domain without its leading
\* http(s):// and without trailing slashes, /r/, and the trimmed token
\* percent-encoded.
C10_BuildReceiptUrlNeverFails ==
    component = "view" =>
        LET v == ViewReceiptUrl
            m == buildReceiptUrlModal(vProps.domain, vProps.token)
            d == StripTrailingSlashes(StripScheme(vProps.domain))
        IN  /\ ~v.threw
            /\ ~m.threw
            /\ v.value = m.value
            /\ StartsWith(v.value, Str_https \o d \o Str_r)
            /\ (d = <<>> \/ d[Len(d)] # "/")
            /\ IsUrlEncoded(Drop(v.value, Len(Str_https \o d \o Str_r)))

\* the positions of s at which /r/ starts
RoutePositions(s) == {k \in 1..(Len(s) - 2) : SubSeq(s, k, k + 2) = Str_r}

\* s is https://<host>/r/<segment>: host non-empty, with no scheme prefix and no
\* trailing slash, segment non-empty and percent-encoded
IsWellFormedReceiptUrl(s) ==
    /\ StartsWith(s, Str_https)
    /\ RoutePositions(s) # {}
    /\ LET k == Max(RoutePositions(s))
           host == SubSeq(s, Len(Str_https) + 1, k - 1)
           segment == Drop(s, k + 2)
       IN  /\ host # <<>>
           /\ ~StartsWith(ToLower(host), Str_https)
           /\ ~StartsWith(ToLower(host), Str_http)
           /\ host[Len(host)] # "/"
           /\ segment # <<>>
           /\ IsUrlEncoded(segment)

\* C11 (buildReceiptUrl): for every non-empty domain and non-empty token the view
\* is rendered with, the function returns a well-formed receipt URL:
\* https://<host>/r/<segment>, host non-empty, without scheme prefix or trailing
\* slash, segment non-empty and percent-encoded.
C11_ReceiptUrlWellFormed ==
    (/\ component = "view"
     /\ vProps.domain # <<>>
     /\ vProps.token # Null /\ vProps.token # <<>>)
        => /\ ~ViewReceiptUrl.threw
           /\ IsWellFormedReceiptUrl(ViewReceiptUrl.value)

\* a step in which the handler of a barcode event went past its scanned check
ScanHandled == sEvents' # sEvents /\ ~sShown

\* C12 (ScanScreen): a handled scan with no token sets the message and the
\* scanned flag and navigates nowhere; in every state a set error comes with a
\* set scanned flag, so the render that shows the error shows "Scan again"; and
\* the step that clears the scanned flag ("Scan again") leaves the error null.
C12_UnrecognizedScanShowsRetry ==
    /\ [](sErr # Null => (sScanned /\ sErr = ScanUnrecognized))
    /\ [][/\ (ScanHandled /\ sLast'.tokenId = Null)
               => (sErr' = ScanUnrecognized /\ sScanned' /\ sRoutes' = sRoutes)
          /\ (sScanned /\ ~sScanned') => (sShown /\ sErr' = Null)
         ]_vars

\* C12 witness: after an unrecognized scan and "Scan again", a second unrecognized
\* scan is displayed with its error.
C12_Witness ==
    /\ component = "scan"
    /\ sEvents = 2
    /\ sLast.handled /\ sLast.tokenId = Null
    /\ sLast.data = Str_link \o Uuid7
    /\ sErr = ScanUnrecognized
    /\ sScanned /\ sShown
    /\ sRoutes = <<>>

\* C14 (ScanScreen): a barcode event is handled only while the scanned flag is
\* unset, so after the event that set it every later event is ignored until
\* "Scan again", and router.replace is called at most once per scan session.
C14_OneHandledEventPerSession ==
    [][(ScanHandled \/ sRoutes' # sRoutes) => ~sScanned]_vars

\* C13 (ReceiptScreen): once the effect of the last render has run, the mounted
\* screen is loading only while a fetch whose cancelled flag is unset is pending
\* (so that the completion of that fetch ends the loading state).
C13_LoadingOnlyWhileFetching ==
    (component = "receipt" /\ rMounted /\ ~rEffectPending /\ rLoading)
        => ReceiptLive # {}

\* C15 (ReceiptScreen): once the effect of the last render has run, a rendered
\* receipt (loading false, err null, data non-null) is the response of the fetch
\* for the current token_id.
C15_ReceiptIsForCurrentToken ==
    (/\ component = "receipt"
     /\ rMounted /\ ~rEffectPending
     /\ ReceiptView.view = "receipt")
        => ReceiptView.data = PreviewOf(TokenIdOf(rParam))

\* C16 (ReceiptlessQrModal): once the effect of the latest render has run, a
\* closed modal is idle with no live operation, and a ready or error state belongs
\* to an open modal and stores the receiptUrl derived from the current props.
C16_StateMatchesProps ==
    (component = "modal" /\ ~mEffectPending)
        => /\ ~mProps.open => (mState = QrIdle /\ ModalLive = {})
           /\ mState.status \in {"ready", "error"}
                  => (mProps.open /\ mState.receiptUrl = ModalReceiptUrl(mProps))

\* C16 witness: the modal was re-triggered with another token and shows the QR
\* code of the second one.
C16_Witness ==
    /\ component = "modal"
    /\ mMounted /\ ~mEffectPending
    /\ mProps.open /\ mProps.token = Str_B
    /\ Len(mActs) = 2
    /\ mActs[1].receiptUrl # mActs[2].receiptUrl
    /\ mState.status = "ready"
    /\ mState.receiptUrl = ModalReceiptUrl(mProps)

\* a host name of letters, digits, dots and hyphens
IsPlainHost(h) ==
    /\ h # <<>>
    /\ \A i \in 1..Len(h) : h[i] \in LowerAlpha \cup UpperAlpha \cup Digits \cup {".", "-"}

\* a plain host name, optionally after http:// or https:// and before slashes
IsPlainDomain(d) ==
    \E i \in 0..Len(d) : \E j \in i..Len(d) :
        /\ ToLower(SubSeq(d, 1, i)) \in {<<>>, Str_http, Str_https}
        /\ IsPlainHost(SubSeq(d, i + 1, j))
        /\ \A k \in (j + 1)..Len(d) : d[k] = "/"

\* C17 (buildReceiptUrl, extractTokenId): for every token matching the UUID
\* pattern and every plain domain the view is rendered with, the link the view
\* builds is returned (not thrown) and the scanner extracts the same token from it.
C17_RoundTrip ==
    (/\ component = "view"
     /\ vProps.token # Null /\ UUID_RE(vProps.token)
     /\ IsPlainDomain(vProps.domain))
        => /\ ~ViewReceiptUrl.threw
           /\ extractTokenId(ViewReceiptUrl.value) = vProps.token

\* C17 witness: the view shows the link of an upper-case UUID for a domain given
\* with a scheme in mixed case and trailing slashes.
C17_Witness ==
    /\ component = "view"
    /\ vProps.token = UuidUpper
    /\ vProps.domain = <<"H", "t", "t", "p", ":", "/", "/">> \o Str_domain \o <<"/", "/", "/">>
    /\ ViewView = [view |-> "qr", value |-> Str_link \o UuidUpper]
    /\ extractTokenId(ViewView.value) = UuidUpper

=============================================================================
